---- MODULE Spec2Model ----
(***************************************************************************)
(* The Vizier trial loop of 04_vizier_pcam_model_training.ipynb: the       *)
(* driver (the "Run Vertex Vizier trials" cell), the evaluation function   *)
(* CreateMetrics / run_model_training, and the Vizier service as the       *)
(* notebook documents it (client_id, PENDING / COMPLETED trials).          *)
(*                                                                         *)
(* Numbers that are floats in the notebook (parameter values) are fixed    *)
(* point with Scale units per 1.0, so that int(batch_size) is a real       *)
(* conversion.  Accuracies are in tenths (9 is 0.9).  calls is a history   *)
(* variable: the calls the cell has made since it was last started.        *)
(*                                                                         *)
(* SpecJob is the multi-node training section of 02_2_vertex_ai_pcam.ipynb:*)
(* the job submitted with sync=False and the cells that fetch its metrics, *)
(* after the cells that build its arguments (CMDARGS, args_dict, PARAMS).  *)
(* A Python string is the sequence of its pieces there: a flag is "--" and *)
(* its name, a path its parts, str(n) the digit characters of n.           *)
(***************************************************************************)
EXTENDS Integers, Sequences, FiniteSets, TLC

\* ------------------------------------------------------------- bounds
MaxCeiling == 2
MaxCount == 2
MaxAvail == 2
MaxExternal == 1
MaxRuns == 2
\* suggestion requests per run: one more than a run that makes progress can need
MaxSuggest == MaxCeiling + 1

\* ------------------------------------------------- program constants
Scale == 10000
EPOCHS == 2
DefaultBatchSize == 32

client_pcam == "client_pcam"

\* study_spec.parameters: the discrete domains, as the doubles the service holds
BatchSizeValues == {16 * Scale, 32 * Scale, 64 * Scale, 128 * Scale, 256 * Scale}
LearningRateValues == {1, 10, 100, 1000}

\* the assignments <<batch_size, learning_rate>> the optimizer draws in the
\* model's runs (a sample of the product of the domains)
SampledAssignments == {<<16 * Scale, 1>>, <<256 * Scale, 1000>>}

\* model.history.history["val_accuracy"] of a training, one entry per epoch, in
\* tenths: the last epoch is the best one, or it is not
Histories == {h \in {<<5, 9>>, <<9, 5>>} : Len(h) = EPOCHS}

\* run_model_training(batch_size, learning_rate, EPOCHS, ...): the history the
\* training ends with in the model's runs: a small learning rate still gains in
\* the last epoch, a large one has its best epoch first
run_model_training(bs, lr) ==
    CHOOSE h \in Histories : (lr <= 10) <=> (h[Len(h)] >= h[1])

\* the study configuration dict: parameter domains, objective metric, algorithm
param_batch_size ==
    [parameter_id |-> "batch_size",
     discrete_value_spec |-> [values |-> BatchSizeValues, default_value |-> 32 * Scale]]

param_learning_rate ==
    [parameter_id |-> "learning_rate",
     discrete_value_spec |-> [values |-> LearningRateValues, default_value |-> 10]]

metric_acc_minimize == [metric_id |-> "accuracy", goal |-> "MINIMIZE"]

metric_acc == [metric_id |-> "accuracy", goal |-> "MAXIMIZE"]

StudyConfiguration ==
    [display_name |-> "STUDY_DISPLAY_NAME",
     study_spec |-> [algorithm |-> "RANDOM_SEARCH",
                     parameters |-> <<param_batch_size, param_learning_rate>>,
                     metrics |-> <<metric_acc>>]]

\* vizier_client.create_study(parent=PARENT, study=study): the study the service
\* holds, under the name it gave it
create_study(parent, st) ==
    [name |-> "STUDY_ID", parent |-> parent, display_name |-> st.display_name,
     study_spec |-> st.study_spec]

Unset == -1

\* 02_2: job.run(replica_count=3, ...), the scores a training can end with (in
\* tenths), and the absent object / the file not yet written
replica_count == 3
JobAccuracies == {5, 9}
NoObject == [path |-> <<>>, body |-> <<>>]
NoFile == <<"no file">>
NoTrial == [state |-> "NONE", parameters |-> <<>>, measurements |-> <<>>, client |-> ""]

VARIABLES
    study,                          \* the study the service holds
    max_trial_id_to_stop,           \* the ceiling
    suggestion_count_per_request,
    avail,                          \* trials the optimizer can still create
    trials,                         \* the study's trials at the service, by id
    ext,                            \* completions made by another party so far
    pc,
    run,                            \* how many times the cell has been started
    base,                           \* trials the study held when the cell was started
    abandoned,                      \* the trial the run before this one failed to
                                    \* evaluate or report (0: none)
    trial_id, suggest_response, idx, trial,
    batch_size, learning_rate,
    history, metrics,
    optimal_trials,                 \* the ids list_optimal_trials returned last
    calls,                          \* the calls of this run of the cell, in order
    \* 02_2_vertex_ai_pcam.ipynb, the multi-node training job and its metrics
    cell,                           \* the cell the user runs next
    job_state, replicas,            \* the training job at Vertex AI and its workers
    gcs_metrics,                    \* the object at DISTRIB_GCS_METRICS_PATH/metrics.json
    metrics_file,
    temp_metrics,                   \* the contents of temp_metrics.json
    job_metrics,                    \* the notebook's metrics dict
    logged_metrics,                 \* the metrics of the Experiment run
    read_at,   \* the job's state when gsutil cat ran last
    CMDARGS,                        \* the arguments of the training job
    argslist,                       \* CMDARGS with "True" behind "--multi-node"
    args_dict,
    PARAMS

vars == <<study, max_trial_id_to_stop, suggestion_count_per_request, avail, trials, ext,
          pc, run, base, abandoned, trial_id, suggest_response, idx, trial,
          batch_size, learning_rate, history, metrics, optimal_trials, calls,
          cell, job_state, replicas, gcs_metrics, metrics_file, temp_metrics,
          job_metrics, logged_metrics, read_at, CMDARGS, argslist, args_dict, PARAMS>>

\* the parameters of the training job, as the notebook builds them
arguments == <<CMDARGS, argslist, args_dict, PARAMS>>

\* the state of the distributed-training notebook
vertex == <<cell, job_state, replicas, gcs_metrics, metrics_file, temp_metrics,
            job_metrics, logged_metrics, read_at, arguments>>

\* the state of the Vizier notebook
vizier == <<study, max_trial_id_to_stop, suggestion_count_per_request, avail, trials,
            ext, pc, run, base, abandoned, trial_id, suggest_response, idx, trial, batch_size,
            learning_rate, history, metrics, optimal_trials, calls>>

\* what no step of the trial loop writes
config == <<study, max_trial_id_to_stop, suggestion_count_per_request, vertex>>
driver == <<trial_id, suggest_response, idx, trial, batch_size, learning_rate,
            history, metrics, optimal_trials>>

\* ------------------------------------------------------ conversions
RECURSIVE ToDigits(_)
ToDigits(n) == IF n < 10 THEN <<n>> ELSE Append(ToDigits(n \div 10), n % 10)

RECURSIVE ParseInt(_)
ParseInt(ds) ==
    IF Len(ds) = 0 THEN 0
    ELSE 10 * ParseInt(SubSeq(ds, 1, Len(ds) - 1)) + ds[Len(ds)]

IntOf(v) == v \div Scale

\* the trial's resource name, "<STUDY_ID>/trials/<id>", as its "/"-separated parts
TrialName(n) == <<"STUDY_ID", "trials", ToDigits(n)>>

SplitLast(name) == name[Len(name)]

TrialNumber(name) == ParseInt(SplitLast(name))

\* ------------------------------------------------------ the call log
\* a call: the operation, the trial ids it names (for suggest: the ids returned),
\* its argument, what it returned, and whether it returned at all
Ev(op, ids, arg, res, ok) ==
    [op |-> op, ids |-> ids, arg |-> arg, res |-> res, ok |-> ok]

NumCalls(op) == Cardinality({i \in 1..Len(calls) : calls[i].op = op})

\* ------------------------------------------- the service, as documented
Min(a, b) == IF a < b THEN a ELSE b

RECURSIVE SortedSeq(_)
SortedSeq(S) ==
    IF S = {} THEN <<>>
    ELSE LET m == CHOOSE x \in S : \A y \in S : x <= y
         IN <<m>> \o SortedSeq(S \ {m})

\* the values the study's configuration allows for parameter number k
Domain(k) == study.study_spec.parameters[k].discrete_value_spec.values

\* a trial's parameters: one value for each parameter of study_spec, in its order,
\* taken from its domain
ParameterChoices ==
    {[k \in 1..Len(study.study_spec.parameters) |->
         [parameter_id |-> study.study_spec.parameters[k].parameter_id, value |-> a[k]]] :
     a \in {b \in SampledAssignments :
                \A k \in 1..Len(study.study_spec.parameters) : b[k] \in Domain(k)}}

NewTrial(client, ps) ==
    [state |-> "PENDING", parameters |-> ps, measurements |-> <<>>, client |-> client]

PendingOrCompletedOf(client) ==
    {i \in 1..Len(trials) :
        trials[i].state \in {"PENDING", "COMPLETED"} /\ trials[i].client = client}

\* the client's PENDING trials: a request with the same client_id gets them again
PendingOf(client) ==
    {i \in 1..Len(trials) : trials[i].state = "PENDING" /\ trials[i].client = client}

\* how many trials a request for `count` creates beyond the client's PENDING ones
NewCount(client, count) ==
    IF Cardinality(PendingOf(client)) >= count THEN 0
    ELSE Min(count - Cardinality(PendingOf(client)), avail)

\* the ids a request returns: the client's PENDING trials first, then new ones
SuggestedIds(client, count) ==
    LET old == SortedSeq(PendingOf(client))
        kept == SubSeq(old, 1, Min(Len(old), count))
    IN kept \o [k \in 1..NewCount(client, count) |-> Len(trials) + k]

\* ------------------------------------------------------- the driver
client_id_per_run == IF run = 1 THEN client_pcam ELSE "client_pcam_2"

\* client_id = "client_pcam", sent with every suggestion request
client_id == client_pcam

LoopConditionCountsEvaluations == NumCalls("evaluate") < max_trial_id_to_stop

LoopConditionInclusive == ParseInt(trial_id) <= max_trial_id_to_stop

LoopConditionDoWhile == calls = <<>> \/ ParseInt(trial_id) < max_trial_id_to_stop

\* while int(trial_id) < max_trial_id_to_stop
LoopCondition == ParseInt(trial_id) < max_trial_id_to_stop

TerminalCompletedOnly == {"COMPLETED"}

TerminalNone == {}

\* if trial.state in ["COMPLETED", "INFEASIBLE"]: continue
Terminal == {"COMPLETED", "INFEASIBLE"}

RECURSIVE ExtractBatchSizeOnly(_, _, _)
ExtractBatchSizeOnly(params, bs, lr) ==
    IF Len(params) = 0 THEN <<bs, lr>>
    ELSE LET param == Head(params)
         IN IF param.parameter_id = "batch_size"
            THEN ExtractBatchSizeOnly(Tail(params), param.value, lr)
            ELSE ExtractBatchSizeOnly(Tail(params), bs, lr)

\* for param in trial.parameters: if ... batch_size = ... elif ... learning_rate = ...
RECURSIVE ExtractParameters(_, _, _)
ExtractParameters(params, bs, lr) ==
    IF Len(params) = 0 THEN <<bs, lr>>
    ELSE LET param == Head(params)
         IN IF param.parameter_id = "batch_size"
            THEN ExtractParameters(Tail(params), param.value, lr)
            ELSE IF param.parameter_id = "learning_rate"
            THEN ExtractParameters(Tail(params), bs, param.value)
            ELSE ExtractParameters(Tail(params), bs, lr)

ValAccuracyBest(h) == CHOOSE v \in {h[i] : i \in 1..Len(h)} : \A i \in 1..Len(h) : v >= h[i]

\* run_model_training: val_accuracy is the last entry of the training history
ValAccuracy(h) == h[Len(h)]

\* CreateMetrics: [acc] with acc = {"metric_id": "accuracy", "value": accuracy}
CreateMetrics(h) == <<[metric_id |-> "accuracy", value |-> ValAccuracy(h)]>>

EvaluateArgsUnconverted == <<batch_size, learning_rate>>

\* the arguments the loop passes to CreateMetrics
EvaluateArgs == <<IntOf(batch_size), learning_rate>>

TrialInfeasibleAlways == TRUE

\* {"name": suggested_trial.name, "trial_infeasible": False}
TrialInfeasible == FALSE

Current == TrialNumber(suggest_response[idx])

NextTrialLeavesBatch == "while"

NextTrialChecksCeiling ==
    IF idx + 1 > Len(suggest_response) \/ ~LoopCondition THEN "while" ELSE "for"

\* where the for loop goes after this trial: the next one, or the while condition
NextTrial == IF idx + 1 > Len(suggest_response) THEN "while" ELSE "for"

AbortRetries(ev) ==
    /\ pc' = pc
    /\ calls' = Append(calls, ev)

\* an exception leaves the cell: nothing after the failed call is executed
Abort(ev) ==
    /\ pc' = "aborted"
    /\ calls' = Append(calls, ev)

Init ==
    /\ study = create_study("PARENT", StudyConfiguration)
    /\ max_trial_id_to_stop \in -1..MaxCeiling
    /\ suggestion_count_per_request \in 1..MaxCount
    /\ avail \in 0..MaxAvail
    /\ trials = <<>>
    /\ ext = 0
    /\ pc = "while"
    /\ run = 1
    /\ base = 0
    /\ abandoned = 0
    /\ trial_id = <<0>>
    /\ suggest_response = <<>>
    /\ idx = 1
    /\ trial = NoTrial
    /\ batch_size = DefaultBatchSize * Scale
    /\ learning_rate = Unset
    /\ history = <<>>
    /\ metrics = <<>>
    /\ optimal_trials = <<>>
    /\ calls = <<>>
    /\ cell = "CMDARGS"
    /\ CMDARGS = <<>>
    /\ argslist = <<>>
    /\ args_dict = <<>>
    /\ PARAMS = <<>>
    /\ job_state = "NOT_SUBMITTED"
    /\ replicas = [w \in 1..replica_count |-> "NOT_STARTED"]
    /\ gcs_metrics = NoObject
    /\ metrics_file = <<>>
    /\ temp_metrics = NoFile
    /\ job_metrics = <<>>
    /\ logged_metrics = <<>>
    /\ read_at = "NONE"

\* while int(trial_id) < max_trial_id_to_stop: suggest_trials(...)
SuggestTrials ==
    /\ pc = "while"
    /\ LoopCondition
    /\ NumCalls("suggest") < MaxSuggest
    /\ LET ids == SuggestedIds(client_id, suggestion_count_per_request)
           n == NewCount(client_id, suggestion_count_per_request)
       IN /\ \E ps \in [1..n -> ParameterChoices] :
                trials' = trials \o [k \in 1..n |-> NewTrial(client_id, ps[k])]
          /\ avail' = avail - n
          /\ suggest_response' = [k \in 1..Len(ids) |-> TrialName(ids[k])]
          /\ calls' = Append(calls, Ev("suggest", ids, <<client_id, suggestion_count_per_request>>, <<>>, TRUE))
    /\ idx' = 1
    /\ pc' = IF Len(suggest_response') = 0 THEN "while" ELSE "for"
    /\ UNCHANGED <<config, ext, run, base, abandoned, trial_id, trial, batch_size, learning_rate,
                   history, metrics, optimal_trials>>

SuggestTrialsFails ==
    /\ pc = "while"
    /\ LoopCondition
    /\ NumCalls("suggest") < MaxSuggest
    /\ Abort(Ev("suggest", <<>>, <<client_id, suggestion_count_per_request>>, <<>>, FALSE))
    /\ UNCHANGED <<config, avail, trials, ext, run, base, abandoned, driver>>

\* the while condition is false: the cell ends
Halt ==
    /\ pc = "while"
    /\ ~LoopCondition
    /\ pc' = "done"
    /\ UNCHANGED <<config, avail, trials, ext, run, base, abandoned, driver, calls>>

\* for suggested_trial in ...: trial_id = ...; trial = get_trial(...);
\* terminal: continue; else extract the parameters
GetTrial ==
    /\ pc = "for"
    /\ idx <= Len(suggest_response)
    /\ trial_id' = SplitLast(suggest_response[idx])
    /\ trial' = trials[Current]
    /\ calls' = Append(calls, Ev("get", <<Current>>, <<>>, <<trial'.state>>, TRUE))
    /\ IF trial'.state \in Terminal
       THEN /\ idx' = idx + 1
            /\ pc' = NextTrial
            /\ UNCHANGED <<batch_size, learning_rate>>
       ELSE /\ batch_size' = ExtractParameters(trial'.parameters, batch_size, learning_rate)[1]
            /\ learning_rate' = ExtractParameters(trial'.parameters, batch_size, learning_rate)[2]
            /\ pc' = "evaluate"
            /\ idx' = idx
    /\ UNCHANGED <<config, avail, trials, ext, run, base, abandoned, suggest_response, history, metrics,
                   optimal_trials>>

GetTrialFails ==
    /\ pc = "for"
    /\ idx <= Len(suggest_response)
    /\ trial_id' = SplitLast(suggest_response[idx])
    /\ Abort(Ev("get", <<Current>>, <<>>, <<>>, FALSE))
    /\ UNCHANGED <<config, avail, trials, ext, run, base, abandoned, suggest_response, idx, trial,
                   batch_size, learning_rate, history, metrics, optimal_trials>>

\* CreateMetrics(suggested_trial.name, int(batch_size), learning_rate, EPOCHS, ...)
Evaluate ==
    /\ pc = "evaluate"
    /\ LET h == run_model_training(EvaluateArgs[1], EvaluateArgs[2])
       IN /\ history' = h
          /\ metrics' = CreateMetrics(h)
          /\ calls' = Append(calls, Ev("evaluate", <<Current>>, EvaluateArgs, CreateMetrics(h), TRUE))
    /\ pc' = "report"
    /\ UNCHANGED <<config, avail, trials, ext, run, base, abandoned, trial_id, suggest_response, idx,
                   trial, batch_size, learning_rate, optimal_trials>>

EvaluateFailsSwallowed ==
    /\ pc = "evaluate"
    /\ calls' = Append(calls, Ev("evaluate", <<Current>>, EvaluateArgs, <<>>, FALSE))
    /\ metrics' = <<>>
    /\ pc' = "report"
    /\ UNCHANGED <<config, avail, trials, ext, run, base, abandoned, trial_id, suggest_response,
                   idx, trial, batch_size, learning_rate, history, optimal_trials>>

\* CreateMetrics raises: the exception is not caught
EvaluateFails ==
    /\ pc = "evaluate"
    /\ Abort(Ev("evaluate", <<Current>>, EvaluateArgs, <<>>, FALSE))
    /\ UNCHANGED <<config, avail, trials, ext, run, base, abandoned, driver>>

\* add_trial_measurement({"trial_name": ..., "measurement": {"metrics": ...}})
AddTrialMeasurement ==
    /\ pc = "report"
    /\ trials[Current].state = "PENDING"
    /\ trials' = [trials EXCEPT ![Current].measurements = Append(@, metrics)]
    /\ calls' = Append(calls, Ev("report", <<Current>>, metrics, <<>>, TRUE))
    /\ pc' = "complete"
    /\ UNCHANGED <<config, avail, ext, run, base, abandoned, driver>>

AddTrialMeasurementFailsSwallowed ==
    /\ pc = "report"
    /\ calls' = Append(calls, Ev("report", <<Current>>, metrics, <<>>, FALSE))
    /\ pc' = "complete"
    /\ UNCHANGED <<config, avail, trials, ext, run, base, abandoned, driver>>

\* add_trial_measurement raises: the exception is not caught
AddTrialMeasurementFails ==
    /\ pc = "report"
    /\ Abort(Ev("report", <<Current>>, metrics, <<>>, FALSE))
    /\ UNCHANGED <<config, avail, trials, ext, run, base, abandoned, driver>>

CompleteTrialLeavesPending ==
    /\ pc = "complete"
    /\ trials[Current].state = "PENDING"
    /\ calls' = Append(calls, Ev("complete", <<Current>>, <<TrialInfeasible>>, <<>>, TRUE))
    /\ idx' = idx + 1
    /\ pc' = NextTrial
    /\ UNCHANGED <<config, avail, trials, ext, run, base, abandoned, trial_id, suggest_response, trial,
                   batch_size, learning_rate, history, metrics, optimal_trials>>

CompleteTrialRewritesStudy ==
    /\ pc = "complete"
    /\ trials[Current].state = "PENDING"
    /\ trials' = [trials EXCEPT ![Current].state =
                     IF TrialInfeasible THEN "INFEASIBLE" ELSE "COMPLETED"]
    /\ calls' = Append(calls, Ev("complete", <<Current>>, <<TrialInfeasible>>, <<>>, TRUE))
    /\ idx' = idx + 1
    /\ pc' = NextTrial
    /\ study' = [study EXCEPT !.study_spec.algorithm = "ALGORITHM_UNSPECIFIED"]
    /\ UNCHANGED <<max_trial_id_to_stop, suggestion_count_per_request, avail, ext, run,
                   base, abandoned, trial_id, suggest_response, trial, batch_size, learning_rate,
                   history, metrics, optimal_trials, vertex>>

\* complete_trial({"name": suggested_trial.name, "trial_infeasible": False})
CompleteTrial ==
    /\ pc = "complete"
    /\ trials[Current].state = "PENDING"
    /\ trials' = [trials EXCEPT ![Current].state =
                     IF TrialInfeasible THEN "INFEASIBLE" ELSE "COMPLETED"]
    /\ calls' = Append(calls, Ev("complete", <<Current>>, <<TrialInfeasible>>, <<>>, TRUE))
    /\ idx' = idx + 1
    /\ pc' = NextTrial
    /\ UNCHANGED <<config, avail, ext, run, base, abandoned, trial_id, suggest_response, trial,
                   batch_size, learning_rate, history, metrics, optimal_trials>>

CompleteTrialFails ==
    /\ pc = "complete"
    /\ Abort(Ev("complete", <<Current>>, <<TrialInfeasible>>, <<>>, FALSE))
    /\ UNCHANGED <<config, avail, trials, ext, run, base, abandoned, driver>>

\* the trial a failed evaluation or report of the run has left behind (0: none)
Abandoned ==
    IF /\ pc = "aborted"
       /\ calls[Len(calls)].op \in {"evaluate", "report"}
    THEN calls[Len(calls)].ids[1]
    ELSE 0

RerunKeepsTrialId ==
    /\ pc \in {"done", "aborted", "listed"}
    /\ run < MaxRuns
    /\ run' = run + 1
    /\ base' = Len(trials)
    /\ abandoned' = Abandoned
    /\ pc' = "while"
    /\ calls' = <<>>
    /\ UNCHANGED <<config, avail, trials, ext, trial_id, suggest_response, idx, trial,
                   batch_size, learning_rate, history, metrics, optimal_trials>>

\* the cell is run again: trial_id = 0; the notebook's globals keep their values
Rerun ==
    /\ pc \in {"done", "aborted", "listed"}
    /\ run < MaxRuns
    /\ run' = run + 1
    /\ base' = Len(trials)
    /\ abandoned' = Abandoned
    /\ trial_id' = <<0>>
    /\ pc' = "while"
    /\ calls' = <<>>
    /\ UNCHANGED <<config, avail, trials, ext, suggest_response, idx, trial,
                   batch_size, learning_rate, history, metrics, optimal_trials>>

\* the value of the study's objective metric in the trial's final measurement
\* (the last one reported)
Objective(t) ==
    LET m == trials[t].measurements[Len(trials[t].measurements)]
    IN m[CHOOSE k \in 1..Len(m) :
             m[k].metric_id = study.study_spec.metrics[1].metric_id].value

\* the trials that count for the optimum: COMPLETED, with a measurement
Measured == {t \in 1..Len(trials) :
                trials[t].state = "COMPLETED" /\ Len(trials[t].measurements) > 0}

\* a is at least as good as b for the study's goal
AtLeastAsGood(a, b) ==
    IF study.study_spec.metrics[1].goal = "MAXIMIZE" THEN a >= b ELSE a <= b

\* the optimal trials of a single-objective study
OptimalTrials ==
    {t \in Measured : \A u \in Measured : AtLeastAsGood(Objective(t), Objective(u))}

\* optimal_trials = vizier_client.list_optimal_trials({"parent": STUDY_ID}),
\* the cell after the loop
ListOptimalTrials ==
    /\ pc = "done"
    /\ optimal_trials' = SortedSeq(OptimalTrials)
    /\ pc' = "listed"
    /\ UNCHANGED <<config, avail, trials, ext, run, base, abandoned, trial_id, suggest_response, idx,
                   trial, batch_size, learning_rate, history, metrics, calls>>

\* another party (another session, the console) ends a PENDING trial of the study
ExternalComplete ==
    /\ ext < MaxExternal
    /\ \E t \in 1..Len(trials), st \in {"COMPLETED", "INFEASIBLE"} :
        /\ trials[t].state = "PENDING"
        /\ trials' = [trials EXCEPT ![t].state = st]
    /\ ext' = ext + 1
    /\ UNCHANGED <<config, avail, pc, run, base, abandoned, driver, calls>>

Next ==
    \/ SuggestTrials
    \/ SuggestTrialsFails
    \/ Halt
    \/ GetTrial
    \/ GetTrialFails
    \/ Evaluate
    \/ EvaluateFails
    \/ AddTrialMeasurement
    \/ AddTrialMeasurementFails
    \/ CompleteTrial
    \/ CompleteTrialFails
    \/ Rerun
    \/ ListOptimalTrials
    \/ ExternalComplete

Spec == Init /\ [][Next]_vars

\* ------------------------------------------------------------------
\* 02_2_vertex_ai_pcam.ipynb: the multi-node training job, submitted with
\* sync=False, and the cells that fetch its metrics.  The user runs the cells in
\* order, each when they choose to; the job advances on its own.

\* DISTRIB_GCS_METRICS_PATH as path parts: "/gcs/", bucket, model, "metrics", ts
DISTRIB_GCS_METRICS_PATH == <<"/gcs/", "BUCKET_NAME", "MODEL_DISPLAY_NAME", "metrics", "ts">>

\* str.replace("/gcs/", "gs://") on the parts
Replace(path, old, new) == [k \in 1..Len(path) |-> IF path[k] = old THEN new ELSE path[k]]

\* the object a path names, whichever of the two spellings of the bucket it uses
ObjectOf(path) == Replace(path, "/gcs/", "gs://")

\* metrics.json as the training writes it: the scores, the labels, the predictions
MetricsJson(accuracy) ==
    [accuracy |-> ToDigits(accuracy), all_labels |-> <<0, 1>>, all_preds |-> <<1, 1>>]

\* _ = metrics.pop("all_labels"); _ = metrics.pop("all_preds")
Pop(m) == [k \in (DOMAIN m) \ {"all_labels", "all_preds"} |-> m[k]]

\* metrics = {k: float(v) for k, v in metrics.items()}
Floats(m) == [k \in DOMAIN m |-> ParseInt(m[k])]

\* IMAGE_HEIGHT = 96, IMAGE_WIDTH = 96 (the notebook's setup), BATCH_SIZE = 32
IMAGE_HEIGHT == 96
IMAGE_WIDTH == 96
BATCH_SIZE == 32

\* MODEL_DISPLAY_NAME, GCS_WORKDIR = f"gs://{BUCKET_NAME}/{MODEL_DISPLAY_NAME}" and
\* DISTRIB_GCS_MODEL_SAVEDIR = f"{GCS_WORKDIR}/{ts}", as their parts
MODEL_DISPLAY_NAME == <<"MODEL_DISPLAY_NAME">>
GCS_WORKDIR == <<"gs://", "BUCKET_NAME", "MODEL_DISPLAY_NAME">>
DISTRIB_GCS_MODEL_SAVEDIR == GCS_WORKDIR \o <<"ts">>

\* str(n): the digit characters of n
Str(n) == [i \in 1..Len(ToDigits(n)) |->
              <<"0", "1", "2", "3", "4", "5", "6", "7", "8", "9">>[ToDigits(n)[i] + 1]]

\* list.index(x): the first position of x, counted from 0
Index(l, x) == (CHOOSE i \in 1..Len(l) : l[i] = x /\ \A j \in 1..(i - 1) : l[j] # x) - 1

\* list.insert(i, x): x is put before the element at position i (from 0)
Insert(l, i, x) == SubSeq(l, 1, i) \o <<x>> \o SubSeq(l, i + 1, Len(l))

InsertTrueBefore(l) == Insert(l, Index(l, <<"--", "multi-node">>), <<"True">>)

\* argslist.insert(argslist.index("--multi-node") + 1, "True")
InsertTrue(l) == Insert(l, Index(l, <<"--", "multi-node">>) + 1, <<"True">>)

\* {l[i]: l[i + 1] for i in range(0, len(l), 2)}: of two equal keys the later
\* one stays
DictOf(l) ==
    LET P == {i \in 1..Len(l) : i % 2 = 1}
    IN [k \in {l[i] : i \in P} |->
           l[(CHOOSE i \in P : l[i] = k /\ \A j \in P : l[j] = k => j <= i) + 1]]

\* {**a, **b}: b's entry stays where both have the key
Merge(a, b) == [k \in (DOMAIN a) \cup (DOMAIN b) |-> IF k \in DOMAIN b THEN b[k] ELSE a[k]]

\* CMDARGS = ["--epochs", str(EPOCHS), ..., "--ml-task", "patchcamelyon"]
CmdArgsCell ==
    /\ cell = "CMDARGS"
    /\ CMDARGS' = << <<"--", "epochs">>, Str(EPOCHS),
                     <<"--", "batch-size">>, Str(BATCH_SIZE),
                     <<"--", "multi-node">>,
                     <<"--", "gcs-workdir">>, GCS_WORKDIR,
                     <<"--", "gcs-model-savedir">>, DISTRIB_GCS_MODEL_SAVEDIR,
                     <<"--", "gcs-metrics-path">>, DISTRIB_GCS_METRICS_PATH,
                     <<"--", "image-height">>, Str(IMAGE_HEIGHT),
                     <<"--", "image-width">>, Str(IMAGE_WIDTH),
                     <<"--", "ml-task">>, <<"patchcamelyon">> >>
    /\ cell' = "argslist"
    /\ UNCHANGED <<vizier, argslist, args_dict, PARAMS, job_state, replicas, gcs_metrics,
                   metrics_file, temp_metrics, job_metrics, logged_metrics, read_at>>

\* argslist = CMDARGS.copy(); the insert; the dict comprehension.  index raises
\* ValueError without the flag, the comprehension IndexError on an odd length.
ArgsDictCell ==
    /\ cell = "argslist"
    /\ IF \A i \in 1..Len(CMDARGS) : CMDARGS[i] # <<"--", "multi-node">>
       THEN /\ argslist' = CMDARGS
            /\ cell' = "ValueError"
            /\ UNCHANGED args_dict
       ELSE /\ argslist' = InsertTrue(CMDARGS)
            /\ IF Len(InsertTrue(CMDARGS)) % 2 = 0
               THEN /\ args_dict' = DictOf(InsertTrue(CMDARGS))
                    /\ cell' = "PARAMS"
               ELSE /\ cell' = "IndexError"
                    /\ UNCHANGED args_dict
    /\ UNCHANGED <<vizier, CMDARGS, PARAMS, job_state, replicas, gcs_metrics,
                   metrics_file, temp_metrics, job_metrics, logged_metrics, read_at>>

\* PARAMS = {"model_display_name": MODEL_DISPLAY_NAME}; PARAMS = {**PARAMS, **args_dict}
ParamsCell ==
    /\ cell = "PARAMS"
    /\ PARAMS' = Merge([k \in {<<"model_display_name">>} |-> MODEL_DISPLAY_NAME], args_dict)
    /\ cell' = "job.run"
    /\ UNCHANGED <<vizier, CMDARGS, argslist, args_dict, job_state, replicas, gcs_metrics,
                   metrics_file, temp_metrics, job_metrics, logged_metrics, read_at>>

\* model2 = job.run(..., sync=False): returns at once, the job is on its way
JobRun ==
    /\ cell = "job.run"
    /\ job_state' = "RUNNING"
    /\ replicas' = [w \in 1..replica_count |-> "TRAINING"]
    /\ cell' = "metrics_file"
    /\ UNCHANGED <<vizier, arguments, gcs_metrics, metrics_file, temp_metrics,
                   job_metrics, logged_metrics, read_at>>

\* a worker of the job finishes its training
WorkerDone ==
    /\ job_state = "RUNNING"
    /\ \E w \in 1..replica_count :
          /\ replicas[w] = "TRAINING"
          /\ replicas' = [replicas EXCEPT ![w] = "DONE"]
    /\ UNCHANGED <<vizier, arguments, cell, job_state, gcs_metrics, metrics_file, temp_metrics,
                   job_metrics, logged_metrics, read_at>>

\* a worker of the job fails
WorkerFails ==
    /\ job_state = "RUNNING"
    /\ \E w \in 1..replica_count :
          /\ replicas[w] = "TRAINING"
          /\ replicas' = [replicas EXCEPT ![w] = "FAILED"]
    /\ UNCHANGED <<vizier, arguments, cell, job_state, gcs_metrics, metrics_file, temp_metrics,
                   job_metrics, logged_metrics, read_at>>

\* the training is over: the job writes metrics.json under --gcs-metrics-path
JobSucceeds ==
    /\ job_state = "RUNNING"
    /\ \A w \in 1..replica_count : replicas[w] = "DONE"
    /\ \E a \in JobAccuracies :
          gcs_metrics' = [path |-> ObjectOf(DISTRIB_GCS_METRICS_PATH \o <<"metrics.json">>),
                          body |-> MetricsJson(a)]
    /\ job_state' = "SUCCEEDED"
    /\ UNCHANGED <<vizier, arguments, cell, replicas, metrics_file, temp_metrics, job_metrics,
                   logged_metrics, read_at>>

\* a worker has failed: so has the job, and nothing is written
JobFails ==
    /\ job_state = "RUNNING"
    /\ \E w \in 1..replica_count : replicas[w] = "FAILED"
    /\ job_state' = "FAILED"
    /\ UNCHANGED <<vizier, arguments, cell, replicas, gcs_metrics, metrics_file, temp_metrics,
                   job_metrics, logged_metrics, read_at>>

\* metrics_file = f"{DISTRIB_GCS_METRICS_PATH}/metrics.json".replace("/gcs/", "gs://")
MetricsFile ==
    /\ cell = "metrics_file"
    /\ metrics_file' = Replace(DISTRIB_GCS_METRICS_PATH \o <<"metrics.json">>, "/gcs/", "gs://")
    /\ cell' = "gsutil cat"
    /\ UNCHANGED <<vizier, arguments, job_state, replicas, gcs_metrics, temp_metrics, job_metrics,
                   logged_metrics, read_at>>

\* !gsutil cat $metrics_file > temp_metrics.json; metrics = json.load(fp); the
\* two pops.  Without the object the file is empty and json.load raises.
GsutilCat ==
    /\ cell = "gsutil cat"
    /\ read_at' = job_state
    /\ IF gcs_metrics # NoObject /\ gcs_metrics.path = metrics_file
       THEN /\ temp_metrics' = gcs_metrics.body
            /\ job_metrics' = Pop(gcs_metrics.body)
            /\ cell' = "float"
       ELSE /\ temp_metrics' = <<>>
            /\ cell' = "raised"
            /\ UNCHANGED job_metrics
    /\ UNCHANGED <<vizier, arguments, job_state, replicas, gcs_metrics, metrics_file, logged_metrics>>

\* the user runs the cell again after its exception
RunCellAgain ==
    /\ cell = "raised"
    /\ cell' = "gsutil cat"
    /\ UNCHANGED <<vizier, arguments, job_state, replicas, gcs_metrics, metrics_file, temp_metrics,
                   job_metrics, logged_metrics, read_at>>

FloatCell ==
    /\ cell = "float"
    /\ job_metrics' = Floats(job_metrics)
    /\ cell' = "start_run"
    /\ UNCHANGED <<vizier, arguments, job_state, replicas, gcs_metrics, metrics_file, temp_metrics,
                   logged_metrics, read_at>>

\* aiplatform.start_run("run-multinode-distrib")
StartRun ==
    /\ cell = "start_run"
    /\ cell' = "log_metrics"
    /\ UNCHANGED <<vizier, arguments, job_state, replicas, gcs_metrics, metrics_file, temp_metrics,
                   job_metrics, logged_metrics, read_at>>

\* aiplatform.log_metrics(metrics)
LogMetrics ==
    /\ cell = "log_metrics"
    /\ logged_metrics' = job_metrics
    /\ cell' = "end"
    /\ UNCHANGED <<vizier, arguments, job_state, replicas, gcs_metrics, metrics_file, temp_metrics,
                   job_metrics, read_at>>

InitJob ==
    /\ Init
    /\ max_trial_id_to_stop = 0
    /\ suggestion_count_per_request = 1
    /\ avail = 0

NextJob ==
    \/ CmdArgsCell
    \/ ArgsDictCell
    \/ ParamsCell
    \/ JobRun
    \/ WorkerDone
    \/ WorkerFails
    \/ JobSucceeds
    \/ JobFails
    \/ MetricsFile
    \/ GsutilCat
    \/ RunCellAgain
    \/ FloatCell
    \/ StartRun
    \/ LogMetrics

SpecJob == InitJob /\ [][NextJob]_vars

\* =================================================================
\* The claims.  OkCalls(op) are the positions in this run's calls of the
\* calls of `op` that returned; IsCall(i, op, t) says call i is `op` on trial t.
OkCalls(op) == {i \in 1..Len(calls) : calls[i].op = op /\ calls[i].ok}

IsCall(i, op, t) == calls[i].op = op /\ calls[i].ids = <<t>>

\* the run is the notebook's own: the study was created just before it, the
\* optimizer is left alone by everybody else
FirstRunUndisturbed == run = 1 /\ ext = 0

\* C1: for every ceiling, suggestion count and number of available trials, a
\* loop that has halted has evaluated and completed exactly
\* min(ceiling, available trials) trials.  (Stated for the first run on the new
\* study, where the available trials are those created plus those left.)
C1_ExactlyMinOfCeilingAndAvailable ==
    (pc = "done" /\ FirstRunUndisturbed)
        => Cardinality(OkCalls("complete")) = Min(max_trial_id_to_stop, Len(trials) + avail)

\* the last call of the run so far is a suggestion request that returned no trial
LastSuggestionEmpty ==
    /\ Len(calls) > 0
    /\ calls[Len(calls)].op = "suggest"
    /\ calls[Len(calls)].ok
    /\ calls[Len(calls)].ids = <<>>

\* C2: once a suggestion request has returned an empty batch, the loop halts:
\* it issues no further suggestion request (no call at all) in that run.
C2_HaltsOnEmptyBatch ==
    [][LastSuggestionEmpty => Len(calls') <= Len(calls)]_vars

ParameterValue(t, pid) ==
    LET ps == trials[t].parameters
    IN ps[CHOOSE k \in 1..Len(ps) : ps[k].parameter_id = pid].value

EndStates == {"COMPLETED", "INFEASIBLE"}

\* C4: a trial of the batch read as COMPLETED or INFEASIBLE gets no evaluate,
\* report_measurement or complete call; a trial read as anything else is
\* evaluated exactly once, with its own parameter assignment (batch_size as an
\* integer), then the metrics returned are reported, then it is completed.
C4_TerminalSkippedOthersEvaluated ==
    /\ \A i \in OkCalls("get") :
        LET t == calls[i].ids[1]
            n == Len(calls)
        IN IF calls[i].res[1] \in EndStates
           THEN /\ \A j \in (i + 1)..n :
                      ~(calls[j].op \in {"evaluate", "report", "complete"}
                            /\ calls[j].ids = <<t>>)
                /\ i = n => pc \notin {"evaluate", "report", "complete"}
           ELSE /\ Cardinality({j \in 1..n : IsCall(j, "evaluate", t)}) <= 1
                /\ i = n => pc = "evaluate"
                /\ i < n =>
                      /\ IsCall(i + 1, "evaluate", t)
                      /\ calls[i + 1].arg[1] * Scale = ParameterValue(t, "batch_size")
                      /\ calls[i + 1].arg[2] = ParameterValue(t, "learning_rate")
                /\ (i + 1 = n /\ calls[n].ok) => pc = "report"
                /\ (i + 1 < n /\ calls[i + 1].ok) =>
                      /\ IsCall(i + 2, "report", t)
                      /\ calls[i + 2].arg = calls[i + 1].res
                /\ (i + 2 = n /\ calls[n].ok) => pc = "complete"
                /\ (i + 2 < n /\ calls[i + 2].ok) => IsCall(i + 3, "complete", t)
    /\ \A j \in 1..Len(calls) :
          calls[j].op = "evaluate" =>
              /\ j > 1
              /\ (j - 1) \in OkCalls("get")
              /\ calls[j - 1].ids = calls[j].ids
              /\ calls[j - 1].res[1] \notin EndStates

\* one trial of the run was skipped as terminal, another evaluated and completed
C4_Witness ==
    /\ \E i \in OkCalls("get") : calls[i].res[1] \in EndStates /\ i < Len(calls)
    /\ \E i \in OkCalls("get") :
          /\ calls[i].res[1] \notin EndStates
          /\ i + 3 <= Len(calls)
          /\ calls[i + 3].op = "complete"
          /\ calls[i + 3].ok

\* C5 (as the spec has it): when a run has ended and an evaluation in it found
\* the configuration unusable (it failed), the trial was completed with
\* infeasible = true.
C5_InfeasibleWhenUnusable ==
    pc \in {"done", "aborted"} =>
        \A i \in 1..Len(calls) :
            (calls[i].op = "evaluate" /\ ~calls[i].ok) =>
                \E j \in (i + 1)..Len(calls) :
                    IsCall(j, "complete", calls[i].ids[1]) /\ calls[j].arg = <<TRUE>>

\* C5 (amended): every completion the driver reports carries infeasible =
\* false and comes after the evaluation of that trial returned metrics and they
\* were reported; a failed evaluation is followed by no completion at all.
C5_CompletionNeverInfeasible ==
    /\ \A i \in 1..Len(calls) :
          calls[i].op = "complete" =>
              /\ calls[i].arg = <<FALSE>>
              /\ i > 2
              /\ (i - 2) \in OkCalls("evaluate")
              /\ calls[i - 2].ids = calls[i].ids
              /\ Len(calls[i - 2].res) > 0
              /\ (i - 1) \in OkCalls("report")
    /\ \A i \in 1..Len(calls) :
          (calls[i].op = "evaluate" /\ ~calls[i].ok) =>
              \A j \in 1..Len(calls) : ~IsCall(j, "complete", calls[i].ids[1])

\* a run that completed one trial and then lost the other to a failed evaluation
C5_Witness ==
    /\ pc = "aborted"
    /\ OkCalls("complete") # {}
    /\ calls[Len(calls)].op = "evaluate"
    /\ ~calls[Len(calls)].ok

\* C6: a failed evaluation is the last call of its run: no report_measurement,
\* complete, suggestion request or evaluation follows it, the run is aborted,
\* and (nobody else touching the study) the trial is still PENDING.
C6_EvaluateFailureAborts ==
    \A i \in 1..Len(calls) :
        (calls[i].op = "evaluate" /\ ~calls[i].ok) =>
            /\ i = Len(calls)
            /\ pc = "aborted"
            /\ ext = 0 => trials[calls[i].ids[1]].state = "PENDING"
            /\ ext = 0 => \A j \in 1..Len(calls) : ~IsCall(j, "report", calls[i].ids[1])

C6_Witness ==
    /\ Len(calls) >= 3
    /\ calls[Len(calls)].op = "evaluate"
    /\ ~calls[Len(calls)].ok
    /\ trials[calls[Len(calls)].ids[1]].state = "PENDING"

RemoteCalls == {"suggest", "get", "report", "complete"}

\* C7: a failed remote call is the last call of its run (it is not issued again,
\* and no other remote call or evaluation follows), and the run is aborted.
C7_NoRetries ==
    /\ \A i \in 1..Len(calls) :
          (calls[i].op \in RemoteCalls /\ ~calls[i].ok) => (i = Len(calls) /\ pc = "aborted")
    /\ pc = "aborted" => (Len(calls) > 0 /\ ~calls[Len(calls)].ok)

\* the second trial's report_measurement failed, in a run that went that far
C7_Witness ==
    /\ pc = "aborted"
    /\ Len(calls) >= 6
    /\ calls[Len(calls)].op = "report"
    /\ ~calls[Len(calls)].ok

\* this step is a suggestion request that returned
SuggestStep ==
    /\ Len(calls') = Len(calls) + 1
    /\ calls'[Len(calls')].op = "suggest"
    /\ calls'[Len(calls')].ok

\* C8: a suggestion request made while the first trial of the previous response
\* is still PENDING (not completed by anybody) returns that trial first again.
C8_PendingTrialSuggestedAgain ==
    [][(/\ SuggestStep
        /\ Len(suggest_response) > 0
        /\ trials[TrialNumber(suggest_response[1])].state = "PENDING")
            => (/\ Len(suggest_response') > 0
                /\ suggest_response'[1] = suggest_response[1])]_vars

\* the second run's first request returned a trial the first run had left PENDING
C8_Witness ==
    /\ run = 2
    /\ Len(calls) > 0
    /\ calls[1].op = "suggest"
    /\ calls[1].ok
    /\ Len(calls[1].ids) > 0
    /\ calls[1].ids[1] <= base
    /\ suggest_response[1] = TrialName(calls[1].ids[1])

LeftOverBatchSizes == BatchSizeValues \cup {DefaultBatchSize * Scale}
LeftOverLearningRates == LearningRateValues \cup {Unset}

\* C10: what an evaluation is called with is the trial's own assignment
\* (batch_size as an integer), whatever batch_size and learning_rate held before
\* the trial was read.
C10_ArgumentsFromOwnAssignment ==
    /\ \A i \in 1..Len(calls) :
          calls[i].op = "evaluate" =>
              /\ calls[i].arg[1] * Scale = ParameterValue(calls[i].ids[1], "batch_size")
              /\ calls[i].arg[2] = ParameterValue(calls[i].ids[1], "learning_rate")
    /\ pc = "evaluate" =>
          \A bs \in LeftOverBatchSizes, lr \in LeftOverLearningRates :
              ExtractParameters(trial.parameters, bs, lr) = <<batch_size, learning_rate>>

\* two evaluations of one run with different arguments: the second one found
\* the first one's values in batch_size and learning_rate
C10_Witness ==
    \E i \in OkCalls("evaluate"), j \in OkCalls("evaluate") :
        /\ i < j
        /\ calls[i].arg[1] # calls[j].arg[1]
        /\ calls[i].arg[2] # calls[j].arg[2]

\* trial t was settled by the calls strictly between positions i and j: read as
\* terminal (and so skipped), or completed
Settled(t, i, j) ==
    \E k \in (i + 1)..(j - 1) :
        /\ calls[k].ok
        /\ \/ IsCall(k, "get", t) /\ calls[k].res[1] \in EndStates
           \/ IsCall(k, "complete", t)

\* the position of the run's latest suggestion request that returned (0: none)
LastSuggest ==
    IF OkCalls("suggest") = {} THEN 0
    ELSE CHOOSE i \in OkCalls("suggest") : \A j \in OkCalls("suggest") : j <= i

\* C11: within a run, a suggestion request is issued only after every trial of
\* the batch before it was skipped as terminal or completed; and while one trial
\* is being evaluated, reported or completed, the trials before it in the batch
\* are settled and the trials after it have not been touched.
C11_StrictlySequential ==
    /\ \A i \in OkCalls("suggest"), j \in 1..Len(calls) :
          (i < j /\ calls[j].op = "suggest") =>
              \A k \in 1..Len(calls[i].ids) : Settled(calls[i].ids[k], i, j)
    /\ pc \in {"evaluate", "report", "complete"} =>
          /\ LastSuggest > 0
          /\ idx \in 1..Len(suggest_response)
          /\ \A k \in 1..Len(suggest_response) :
                /\ k < idx =>
                      Settled(TrialNumber(suggest_response[k]), LastSuggest, Len(calls) + 1)
                /\ k > idx =>
                      \A c \in (LastSuggest + 1)..Len(calls) :
                          calls[c].ids # <<TrialNumber(suggest_response[k])>>

\* a second suggestion request of the run, made after the trial of the first
\* batch was evaluated and completed
C11_Witness ==
    \E i \in OkCalls("suggest"), j \in OkCalls("suggest"), c \in OkCalls("complete") :
        /\ i < c
        /\ c < j
        /\ Len(calls[i].ids) > 0
        /\ calls[c].ids[1] = calls[i].ids[1]

\* C12: the study the service holds is the one create_study made from the
\* configuration dict before the loop (parameter domains, objective metric,
\* search algorithm), at every point of every run of the loop.
C12_StudyConfigurationUnchanged ==
    /\ study = create_study("PARENT", StudyConfiguration)
    /\ study.study_spec.algorithm = "RANDOM_SEARCH"
    /\ study.study_spec.metrics = <<[metric_id |-> "accuracy", goal |-> "MAXIMIZE"]>>
    /\ Domain(1) = BatchSizeValues
    /\ Domain(2) = LearningRateValues

\* a run that requested, evaluated, reported and completed two trials and halted
C12_Witness ==
    /\ pc = "done"
    /\ Cardinality(OkCalls("complete")) = 2
    /\ Cardinality(OkCalls("suggest")) = 2
    /\ study.study_spec = StudyConfiguration.study_spec

Statuses == {"PENDING", "COMPLETED", "INFEASIBLE"}

\* this step is a call of the driver (returned or failed)
DriverStep == Len(calls') = Len(calls) + 1

\* this step is a report_measurement or complete call of the driver naming trial t
TouchStep(t) ==
    /\ DriverStep
    /\ calls'[Len(calls')].op \in {"report", "complete"}
    /\ calls'[Len(calls')].ids = <<t>>

\* every trial has one of the three statuses after the step, and a step of the
\* driver leaves every trial as it was, or adds one measurement to the trial it
\* names, or marks the trial it names COMPLETED
StatusesAndDriverMutations ==
    /\ \A t \in 1..Len(trials') : trials'[t].state \in Statuses
    /\ DriverStep =>
          /\ Len(trials') >= Len(trials)
          /\ \A t \in 1..Len(trials) :
                \/ trials'[t] = trials[t]
                \/ /\ TouchStep(t)
                   /\ calls'[Len(calls')].ok
                   /\ \/ /\ calls'[Len(calls')].op = "report"
                         /\ trials'[t] = [trials[t] EXCEPT
                                !.measurements = Append(@, calls'[Len(calls')].arg)]
                      \/ /\ calls'[Len(calls')].op = "complete"
                         /\ trials'[t] = [trials[t] EXCEPT !.state = "COMPLETED"]

\* the status the run's latest get_trial call on trial t returned ("NONE": no
\* such call)
LastRead(t) ==
    LET gets == {i \in OkCalls("get") : calls[i].ids = <<t>>}
    IN IF gets = {} THEN "NONE"
       ELSE calls[CHOOSE i \in gets : \A j \in gets : j <= i].res[1]

\* C13 (as the spec has it): every trial's status is one of PENDING, COMPLETED,
\* INFEASIBLE, the driver changes a trial only by reporting a measurement on it
\* or completing it, and the trial a report_measurement or complete call names
\* is not terminal when the call is made.
C13_NeverTouchesTerminalTrial ==
    [][/\ StatusesAndDriverMutations
       /\ \A t \in 1..Len(trials) : TouchStep(t) => trials[t].state \notin EndStates]_vars

\* C13 (amended): the statuses and the driver's mutations as above, and the
\* trial a report_measurement or complete call names was read as PENDING by the
\* get_trial call of its iteration (it may have been ended by somebody since).
C13_NeverTouchesTrialReadTerminal ==
    [][/\ StatusesAndDriverMutations
       /\ \A t \in 1..Len(trials) : TouchStep(t) => LastRead(t) = "PENDING"]_vars

\* a report_measurement call was made on a trial that was read as PENDING and
\* ended by somebody else while it was being evaluated
C13_Witness ==
    /\ Len(calls) >= 3
    /\ calls[Len(calls)].op = "report"
    /\ LastRead(calls[Len(calls)].ids[1]) = "PENDING"
    /\ trials[calls[Len(calls)].ids[1]].state \in EndStates
    /\ trials[calls[Len(calls)].ids[1]].measurements = <<>>

\* C14: when list_optimal_trials has been requested after the loop halted, every
\* trial it returned is COMPLETED and its reported accuracy is at least that of
\* every other completed trial of the study with a reported accuracy; and when
\* the study has such a trial, one is returned.
C14_OptimalTrialsAreBestCompleted ==
    pc = "listed" =>
        /\ \A k \in 1..Len(optimal_trials) :
              LET t == optimal_trials[k]
              IN /\ trials[t].state = "COMPLETED"
                 /\ Len(trials[t].measurements) > 0
                 /\ \A u \in 1..Len(trials) :
                       (trials[u].state = "COMPLETED" /\ Len(trials[u].measurements) > 0) =>
                           trials[t].measurements[Len(trials[t].measurements)][1].value
                               >= trials[u].measurements[Len(trials[u].measurements)][1].value
        /\ (\E u \in 1..Len(trials) :
                trials[u].state = "COMPLETED" /\ Len(trials[u].measurements) > 0)
              => Len(optimal_trials) > 0

\* two completed trials, the first at 0.9 and the second at 0.5: the first one
\* is returned, alone
C14_Witness ==
    /\ pc = "listed"
    /\ Len(trials) = 2
    /\ trials[1].state = "COMPLETED"
    /\ trials[2].state = "COMPLETED"
    /\ trials[1].measurements = <<CreateMetrics(<<5, 9>>)>>
    /\ trials[2].measurements = <<CreateMetrics(<<9, 5>>)>>
    /\ optimal_trials = <<1>>

\* the trials named by the calls of `op` of this run that returned
TrialsOf(op) == {calls[i].ids[1] : i \in OkCalls(op)}

\* C15: in every run, the trials the driver completed are among those it
\* reported a measurement for, which are among those whose evaluation returned;
\* a completed trial has exactly one report_measurement call of the run, made
\* before its completion; on the study's first run it then holds exactly one
\* measurement.
C15_CompletedWithinReportedWithinEvaluated ==
    /\ TrialsOf("complete") \subseteq TrialsOf("report")
    /\ TrialsOf("report") \subseteq TrialsOf("evaluate")
    /\ \A i \in OkCalls("complete") :
          LET t == calls[i].ids[1]
              reports == {j \in 1..Len(calls) : IsCall(j, "report", t)}
          IN /\ Cardinality(reports) = 1
             /\ \A j \in reports : j < i /\ calls[j].ok
             /\ \E k \in OkCalls("evaluate") :
                   \A j \in reports : k < j /\ calls[k].ids = <<t>>
             /\ run = 1 => Len(trials[t].measurements) = 1

\* a run with two trials per request, aborted when the completion of the
\* second trial failed: one trial completed, two reported, two evaluated
C15_Witness ==
    /\ pc = "aborted"
    /\ suggestion_count_per_request = 2
    /\ TrialsOf("complete") = {1}
    /\ TrialsOf("report") = {1, 2}
    /\ TrialsOf("evaluate") = {1, 2}

\* C16: the metrics read (gsutil cat of the job's metrics.json) is made only
\* once the training job has finished, never while the job submitted with
\* sync=False is still running; and metrics are logged only after such a read.
C16_MetricsReadOnlyAfterJobFinished ==
    /\ read_at \in {"NONE", "SUCCEEDED", "FAILED"}
    /\ logged_metrics # <<>> => read_at \in {"SUCCEEDED", "FAILED"}

\* the id of the trial the run fetched last before call j (0: none yet): the
\* number trial_id holds when call j is made
TrialIdBefore(j) ==
    LET gets == {i \in 1..(j - 1) : calls[i].op = "get"}
    IN IF gets = {} THEN 0
       ELSE calls[CHOOSE i \in gets : \A k \in gets : k <= i].ids[1]

\* the suggestion requests of the run that returned at least one trial
Batches == {i \in OkCalls("suggest") : Len(calls[i].ids) > 0}

\* C17: trial_id is the id of the trial fetched last, skipped or not; a halted
\* loop has trial_id >= max_trial_id_to_stop; a suggestion request is made
\* exactly when trial_id < max_trial_id_to_stop, whatever the number of trials
\* evaluated; and a run with ceiling >= 1 on a study whose ids already reach
\* the ceiling gets at most one batch, exactly one when it halts.
C17_StopsOnLastSuggestedTrialId ==
    /\ ParseInt(trial_id) = TrialIdBefore(Len(calls) + 1)
    /\ pc = "done" => ParseInt(trial_id) >= max_trial_id_to_stop
    /\ pc = "while" => (ENABLED Halt <=> ParseInt(trial_id) >= max_trial_id_to_stop)
    /\ \A j \in 1..Len(calls) :
          calls[j].op = "suggest" => TrialIdBefore(j) < max_trial_id_to_stop
    /\ (max_trial_id_to_stop >= 1 /\ base >= max_trial_id_to_stop) =>
          /\ Cardinality(Batches) <= 1
          /\ pc = "done" => Cardinality(Batches) = 1

\* a second run, on a study whose ids reach the ceiling: its one batch held a
\* trial that was skipped as terminal, and the run halted on that trial's id
\* without having evaluated anything
C17_Witness ==
    /\ pc = "done"
    /\ max_trial_id_to_stop >= 1
    /\ base >= max_trial_id_to_stop
    /\ Cardinality(Batches) = 1
    /\ calls[Len(calls)].op = "get"
    /\ calls[Len(calls)].res[1] \in EndStates
    /\ ParseInt(trial_id) = calls[Len(calls)].ids[1]
    /\ OkCalls("evaluate") = {}

\* C18: the ceiling is tested between batches only: whenever the loop is at its
\* while test or has halted, every trial of the batch returned last was skipped
\* as terminal or evaluated and completed, also those after the trial whose id
\* reached the ceiling; on the first run of a new study a run with a ceiling
\* that is a count (>= 0) makes at most ceiling + c - 1 evaluations (c the
\* suggestion count), so at most ceiling when c = 1.
C18_CeilingCheckedBetweenBatches ==
    /\ (pc \in {"while", "done"} /\ LastSuggest > 0) =>
          \A k \in 1..Len(calls[LastSuggest].ids) :
              LET t == calls[LastSuggest].ids[k]
              IN /\ Settled(t, LastSuggest, Len(calls) + 1)
                 /\ \A g \in OkCalls("get") :
                       (g > LastSuggest /\ calls[g].ids = <<t>>
                            /\ calls[g].res[1] \notin EndStates) =>
                           \E e \in OkCalls("evaluate"), c \in OkCalls("complete") :
                               /\ g < e
                               /\ e < c
                               /\ calls[e].ids = <<t>>
                               /\ calls[c].ids = <<t>>
    /\ (run = 1 /\ max_trial_id_to_stop >= 0) =>
          /\ NumCalls("evaluate") <= max_trial_id_to_stop + suggestion_count_per_request - 1
          /\ suggestion_count_per_request = 1 => NumCalls("evaluate") <= max_trial_id_to_stop

\* ceiling 1, two trials per request: the ceiling was reached by the first
\* trial of the batch, the second one was evaluated and completed all the same
C18_Witness ==
    /\ pc = "done"
    /\ run = 1
    /\ max_trial_id_to_stop = 1
    /\ suggestion_count_per_request = 2
    /\ Cardinality(OkCalls("evaluate")) = 2
    /\ TrialsOf("complete") = {1, 2}

\* C19: in a run (one without a failure is the only kind that goes on), no
\* two evaluations name the same trial, and no suggestion request returns a
\* trial the run has evaluated before it: each suggested trial was completed
\* (or found terminal) before the next request.
C19_NoTrialEvaluatedTwice ==
    /\ \A i \in 1..Len(calls), j \in 1..Len(calls) :
          (i < j /\ calls[i].op = "evaluate" /\ calls[j].op = "evaluate") =>
              calls[i].ids # calls[j].ids
    /\ \A j \in OkCalls("suggest") :
          \A k \in 1..Len(calls[j].ids) :
              /\ \A i \in 1..(j - 1) :
                    calls[i].op = "evaluate" => calls[i].ids # <<calls[j].ids[k]>>
              /\ \A i \in OkCalls("suggest") :
                    i < j => \A m \in 1..Len(calls[i].ids) : calls[i].ids[m] # calls[j].ids[k]

\* a run without failure that evaluated the trial of its first request, then
\* got and evaluated another trial from its second request, and halted
C19_Witness ==
    /\ pc = "done"
    /\ suggestion_count_per_request = 1
    /\ Cardinality(Batches) = 2
    /\ TrialsOf("evaluate") = {1, 2}
    /\ \A i \in 1..Len(calls) : calls[i].ok

\* C20: a rerun starts with the counter at 0; when the run before it was
\* aborted by a failed evaluation or report, the first suggestion request of
\* the rerun returns the trial left behind (unless somebody else ended it in
\* the meantime), and once the rerun has halted that trial was evaluated again,
\* reported and completed in it (or was ended by somebody else); no trial is
\* PENDING after a run with ceiling >= 1 has halted.
C20_AbandonedTrialTakenUpAgain ==
    /\ (pc = "while" /\ calls = <<>>) => trial_id = <<0>>
    /\ (abandoned > 0 /\ 1 \in OkCalls("suggest")) =>
          \/ \E k \in 1..Len(calls[1].ids) : calls[1].ids[k] = abandoned
          \/ ext > 0 /\ trials[abandoned].state \in EndStates
    /\ (abandoned > 0 /\ pc = "done") =>
          /\ trials[abandoned].state \in EndStates
          /\ \/ \E e \in OkCalls("evaluate"), r \in OkCalls("report"), c \in OkCalls("complete") :
                   /\ e < r
                   /\ r < c
                   /\ calls[e].ids = <<abandoned>>
                   /\ calls[r].ids = <<abandoned>>
                   /\ calls[c].ids = <<abandoned>>
             \/ ext > 0 /\ abandoned \notin TrialsOf("complete")
    /\ (pc = "done" /\ max_trial_id_to_stop >= 1) =>
          \A t \in 1..Len(trials) : trials[t].state # "PENDING"

\* the run before was aborted on trial 1, nobody else touched the study, and
\* the rerun got trial 1 from its first request, evaluated, reported and
\* completed it, and halted
C20_Witness ==
    /\ run = 2
    /\ pc = "done"
    /\ ext = 0
    /\ abandoned = 1
    /\ calls[1].op = "suggest"
    /\ calls[1].ids[1] = 1
    /\ 1 \in TrialsOf("evaluate")
    /\ 1 \in TrialsOf("complete")
    /\ trials[1].state = "COMPLETED"

\* C21: a loop started with a ceiling <= 0 makes no call at all (no remote call,
\* no evaluation) and can only halt; a loop started with a ceiling >= 1 cannot
\* halt before it has made a suggestion request, and its first call is one.
C21_CeilingBelowOneDoesNothing ==
    /\ max_trial_id_to_stop <= 0 =>
          /\ calls = <<>>
          /\ pc \in {"while", "done", "listed"}
          /\ trials = <<>>
          /\ pc = "while" => ENABLED Halt
    /\ max_trial_id_to_stop >= 1 =>
          /\ calls = <<>> => (pc = "while" /\ ~ENABLED Halt)
          /\ calls # <<>> => calls[1].op = "suggest"
          /\ pc \in {"done", "listed", "aborted"} => NumCalls("suggest") >= 1

\* the cell was run twice with a negative ceiling: it halted both times
\* without a call
C21_Witness ==
    /\ max_trial_id_to_stop < 0
    /\ run = 2
    /\ pc = "done"
    /\ calls = <<>>
    /\ avail > 0

\* the evaluate call of trial t that a report call at position j follows
EvaluationBefore(j, t) ==
    CHOOSE e \in 1..(j - 1) :
        /\ IsCall(e, "evaluate", t)
        /\ \A f \in (e + 1)..(j - 1) : ~IsCall(f, "evaluate", t)

\* C22: every measurement the driver reports (and every one the service holds)
\* has exactly one metric; its id is "accuracy", the id of the one metric the
\* study declares; its value is the validation accuracy of the last epoch of
\* the training run of that trial's evaluation, whether or not that epoch was
\* the best one.
C22_OneAccuracyMetricOfLastEpoch ==
    /\ Len(study.study_spec.metrics) = 1
    /\ \A j \in 1..Len(calls) :
          calls[j].op = "report" =>
              LET t == calls[j].ids[1]
                  e == EvaluationBefore(j, t)
                  h == run_model_training(calls[e].arg[1], calls[e].arg[2])
              IN /\ \E f \in 1..(j - 1) : IsCall(f, "evaluate", t) /\ calls[f].ok
                 /\ Len(calls[j].arg) = 1
                 /\ calls[j].arg[1].metric_id = "accuracy"
                 /\ calls[j].arg[1].metric_id = study.study_spec.metrics[1].metric_id
                 /\ Len(h) = EPOCHS
                 /\ calls[j].arg[1].value = h[EPOCHS]
    /\ pc = "report" =>
          /\ Len(metrics) = 1
          /\ metrics[1].value = history[Len(history)]
    /\ \A t \in 1..Len(trials) : \A k \in 1..Len(trials[t].measurements) :
          /\ Len(trials[t].measurements[k]) = 1
          /\ trials[t].measurements[k][1].metric_id = "accuracy"

\* a measurement was reported for a training run whose first epoch was better
\* than its last: the value reported is the last epoch's, not the best
C22_Witness ==
    \E j \in OkCalls("report") :
        /\ history[1] > history[Len(history)]
        /\ \A i \in 1..Len(history) : history[1] >= history[i]
        /\ calls[j].arg[1].value = history[Len(history)]
        /\ calls[j].arg[1].value < history[1]
        /\ j = Len(calls)
        /\ trials[calls[j].ids[1]].measurements = <<calls[j].arg>>

\* C23: every evaluate call, succeeding or failing, receives as batch_size an
\* integer of {16, 32, 64, 128, 256} and as learning_rate one of 1e-4, 1e-3,
\* 1e-2, 1e-1 (1, 10, 100, 1000 in units of 1e-4): the integer of a value of
\* the study's batch_size domain, and a value of its learning_rate domain.
C23_EvaluateArgumentsInsideDomains ==
    \A e \in 1..Len(calls) :
        calls[e].op = "evaluate" =>
            /\ Len(calls[e].arg) = 2
            /\ calls[e].arg[1] \in {16, 32, 64, 128, 256}
            /\ calls[e].arg[2] \in {1, 10, 100, 1000}
            /\ \E v \in Domain(1) : v = calls[e].arg[1] * Scale
            /\ calls[e].arg[2] \in Domain(2)
            /\ study.study_spec.parameters[1].parameter_id = "batch_size"
            /\ study.study_spec.parameters[2].parameter_id = "learning_rate"

\* evaluations at both ends of the domains: batch size 16 with learning rate
\* 1e-4, and batch size 256 with learning rate 1e-1, in one run
C23_Witness ==
    /\ \E e \in OkCalls("evaluate") : calls[e].arg = <<16, 1>>
    /\ \E e \in OkCalls("evaluate") : calls[e].arg = <<256, 1000>>
    /\ batch_size \in {16 * Scale, 256 * Scale}

\* a string that starts with "--"
IsFlag(x) == Len(x) > 0 /\ x[1] = "--"

\* the positions of CMDARGS that hold a flag
FlagPositions == {i \in 1..Len(CMDARGS) : IsFlag(CMDARGS[i])}

\* C24: once the argslist cell has run (it does not raise), argslist is CMDARGS
\* with "True" behind "--multi-node" and has even length, its even positions
\* (counted from 0) hold the flags and its odd positions their values;
\* args_dict has exactly the flags of CMDARGS as keys, maps "--multi-node" to
\* "True" and every other flag to the element that follows it in CMDARGS;
\* CMDARGS itself is left as it was; once the PARAMS cell has run, PARAMS is
\* args_dict plus model_display_name |-> MODEL_DISPLAY_NAME.
C24_ArgsDictMapsFlagsToValues ==
    /\ cell \notin {"ValueError", "IndexError"}
    /\ cell \notin {"CMDARGS", "argslist"} =>
          /\ Len(argslist) = Len(CMDARGS) + 1
          /\ Len(argslist) % 2 = 0
          /\ \A i \in 1..Len(argslist) : IsFlag(argslist[i]) <=> (i - 1) % 2 = 0
          /\ \A i \in 1..Len(argslist) :
                (i - 1) % 2 = 0 => args_dict[argslist[i]] = argslist[i + 1]
          /\ DOMAIN args_dict = {CMDARGS[i] : i \in FlagPositions}
          /\ Cardinality(DOMAIN args_dict) = Cardinality(FlagPositions)
          /\ \A i \in FlagPositions :
                args_dict[CMDARGS[i]] =
                    IF CMDARGS[i] = <<"--", "multi-node">> THEN <<"True">> ELSE CMDARGS[i + 1]
          /\ \E i \in FlagPositions :
                /\ CMDARGS[i] = <<"--", "multi-node">>
                /\ IsFlag(CMDARGS[i + 1])
          /\ \A i \in 1..Len(CMDARGS) : CMDARGS[i] # <<"True">>
          /\ args_dict[<<"--", "batch-size">>] = <<"3", "2">>
    /\ cell \notin {"CMDARGS", "argslist", "PARAMS"} =>
          /\ DOMAIN PARAMS = (DOMAIN args_dict) \cup {<<"model_display_name">>}
          /\ <<"model_display_name">> \notin DOMAIN args_dict
          /\ PARAMS[<<"model_display_name">>] = MODEL_DISPLAY_NAME
          /\ \A k \in DOMAIN args_dict : PARAMS[k] = args_dict[k]

\* the three cells have run and the job was submitted with CMDARGS: PARAMS has
\* the nine flags and the model's name, "--multi-node" with "True"
C24_Witness ==
    /\ job_state = "RUNNING"
    /\ Len(CMDARGS) = 17
    /\ Len(argslist) = 18
    /\ Cardinality(DOMAIN PARAMS) = 10
    /\ PARAMS[<<"--", "multi-node">>] = <<"True">>
    /\ PARAMS[<<"--", "gcs-metrics-path">>] = DISTRIB_GCS_METRICS_PATH
    /\ PARAMS[<<"--", "epochs">>] = <<"2">>

====
